---------------------------- MODULE Spec2Model ----------------------------
(***************************************************************************)
(* A model of package shroud (src/shroud.go): a Client holding an AES-256  *)
(* key, Shroud (json.Marshal -> GCM Seal -> base64), CreateFromEncrypted   *)
(* and Secret.Expose (base64 -> GCM Open -> json.Unmarshal).               *)
(*                                                                         *)
(* Library code the package calls is modelled by what it does:             *)
(*  - encoding/base64 StdEncoding: sextets 0..63, the padding character    *)
(*    and one character outside the alphabet;                              *)
(*  - encoding/json: Marshal of typed Go values to JSON text (bytes) and   *)
(*    Unmarshal (syntax check, then a decode driven by the destination's   *)
(*    type, which keeps decoding after a type mismatch and reports the     *)
(*    first error at the end);                                             *)
(*  - crypto/cipher GCM: a stream cipher plus a 16-byte tag that depends   *)
(*    on every byte of key, nonce and ciphertext (perfect cryptography:    *)
(*    on the bounded domain no two different (key, nonce, ciphertext)      *)
(*    that the model builds share a tag);                                  *)
(*  - crypto/rand: a source that always succeeds and never repeats a       *)
(*    96-bit output (the set drawn records what it has returned).          *)
(***************************************************************************)
EXTENDS Integers, Sequences, FiniteSets, TLC

VARIABLES
    heap,             \* backing arrays of the caller's key slices: Seq(Seq(byte))
    clients,          \* the Clients built: Seq([encryptionKey : index into heap])
    constructedWith,  \* per Client, the key bytes NewSecretClient was given
    secrets,          \* the Secrets built: Seq([encrypted : token, client : index])
    origin,           \* per Secret, how it was made (value, nonce, key, source)
    drawn,            \* the nonces crypto/rand has returned so far
    last,             \* the last API call: its inputs and what it returned
    writes,           \* number of caller writes into a key slice after construction
    tasks             \* the goroutines of the concurrent scenario

vars == <<heap, clients, constructedWith, secrets, origin, drawn, last, writes, tasks>>

-----------------------------------------------------------------------------
(* Program constants *)

\* len(encryptionKey) != 32
KeySize == 32
\* gcm.NonceSize()
NonceSize == 12
\* the GCM tag gcm.Seal appends
TagSize == 16

(* Bounds of the model *)

MaxClients == 2
MaxSecrets == 2
NumTasks == 2
MaxWrites == 1

-----------------------------------------------------------------------------
(* Bytes and sequences *)

RECURSIVE SumSeq(_)
SumSeq(s) == IF s = <<>> THEN 0 ELSE Head(s) + SumSeq(Tail(s))

Fill(n, b) == [i \in 1..n |-> b]

\* bytes[i] ^= 1 << k
FlipBit(bytes, i, k) ==
    LET p == 2 ^ k
        b == bytes[i]
    IN  [bytes EXCEPT ![i] = IF (b \div p) % 2 = 1 THEN b - p ELSE b + p]

-----------------------------------------------------------------------------
(* The errors of the package.  A sentinel is named by its variable; an      *)
(* error wrapped by fmt.Errorf is named by its message prefix and its cause *)

NoError == "nil"
ErrInvalidKey == "ErrInvalidKey"
ErrInvalidSecret == "ErrInvalidSecret"
ErrEmptyValue == "ErrEmptyValue"
ErrMarshal == "failed to marshal value: json.UnsupportedTypeError"
ErrCipher == "failed to create cipher: aes.KeySizeError"
ErrUnmarshalType == "failed to unmarshal value: json.UnmarshalTypeError"
ErrUnmarshalSyntax == "failed to unmarshal value: json.SyntaxError"
ErrUnmarshalNil == "failed to unmarshal value: json.InvalidUnmarshalError"

-----------------------------------------------------------------------------
(* encoding/base64, StdEncoding.  A token is a sequence of characters:      *)
(* 0..63 is the index of a character of the standard alphabet, B64.pad is   *)
(* '=', B64.bad is a character outside the alphabet (such as ' ').          *)

B64 == [pad |-> 64, bad |-> 65]

\* base64.StdEncoding.EncodeToString
EncodeToString(bytes) ==
    LET n == Len(bytes)
        B(j) == IF j <= n THEN bytes[j] ELSE 0
        Ch(p) ==
            LET g == (p - 1) \div 4
                k == (p - 1) % 4
                b1 == B(3 * g + 1)
                b2 == B(3 * g + 2)
                b3 == B(3 * g + 3)
            IN  CASE k = 0 -> b1 \div 4
                  [] k = 1 -> (b1 % 4) * 16 + b2 \div 16
                  [] k = 2 -> IF 3 * g + 2 > n THEN B64.pad
                              ELSE (b2 % 16) * 4 + b3 \div 64
                  [] OTHER -> IF 3 * g + 3 > n THEN B64.pad ELSE b3 % 64
    IN  [p \in 1..(4 * ((n + 2) \div 3)) |-> Ch(p)]

\* One quantum of four characters at position i; the last quantum may end
\* in one or two padding characters, no other may hold one.
DecodeQuantum(tok, i) ==
    LET c1 == tok[i]
        c2 == tok[i + 1]
        c3 == tok[i + 2]
        c4 == tok[i + 3]
        final == i + 3 = Len(tok)
    IN  IF c1 > 63 \/ c2 > 63 THEN [ok |-> FALSE, bytes |-> <<>>]
        ELSE IF c3 = B64.pad
        THEN IF final /\ c4 = B64.pad
             THEN [ok |-> TRUE, bytes |-> <<c1 * 4 + c2 \div 16>>]
             ELSE [ok |-> FALSE, bytes |-> <<>>]
        ELSE IF c3 > 63 THEN [ok |-> FALSE, bytes |-> <<>>]
        ELSE IF c4 = B64.pad
        THEN IF final
             THEN [ok |-> TRUE,
                   bytes |-> <<c1 * 4 + c2 \div 16, (c2 % 16) * 16 + c3 \div 4>>]
             ELSE [ok |-> FALSE, bytes |-> <<>>]
        ELSE IF c4 > 63 THEN [ok |-> FALSE, bytes |-> <<>>]
        ELSE [ok |-> TRUE,
              bytes |-> <<c1 * 4 + c2 \div 16, (c2 % 16) * 16 + c3 \div 4,
                          (c3 % 4) * 64 + c4>>]

RECURSIVE DecodeFrom(_, _)
DecodeFrom(tok, i) ==
    IF i > Len(tok) THEN [ok |-> TRUE, bytes |-> <<>>]
    ELSE IF i + 3 > Len(tok) THEN [ok |-> FALSE, bytes |-> <<>>]
    ELSE LET q == DecodeQuantum(tok, i)
         IN  IF ~q.ok THEN q
             ELSE LET r == DecodeFrom(tok, i + 4)
                  IN  IF ~r.ok THEN r
                      ELSE [ok |-> TRUE, bytes |-> q.bytes \o r.bytes]

\* base64.StdEncoding.DecodeString: (bytes, err == nil)
DecodeString(tok) == DecodeFrom(tok, 1)

-----------------------------------------------------------------------------
(* Go values.  t is the (dynamic) type; n holds a number, a bool (0/1) or,  *)
(* for a slice, 1 when the slice is nil; s holds a string's bytes; e holds  *)
(* a slice's elements.  A float64 of the model is integral (4.0), which     *)
(* json.Marshal writes like the int 4.                                      *)

GoValue(t, n, s, e) == [t |-> t, n |-> n, s |-> s, e |-> e]
Nil == GoValue("nil", 0, <<>>, <<>>)
IntV(n) == GoValue("int", n, <<>>, <<>>)
FloatV(n) == GoValue("float64", n, <<>>, <<>>)
StrV(s) == GoValue("string", 0, s, <<>>)
BoolV(b) == GoValue("bool", IF b THEN 1 ELSE 0, <<>>, <<>>)
SliceV(ty, elems) == GoValue(ty, 0, <<>>, elems)
NilSlice(ty) == GoValue(ty, 1, <<>>, <<>>)
ChanV == GoValue("chan", 0, <<>>, <<>>)

SliceTypes == {"[]int", "[]string", "[]any"}
ElemType(ty) ==
    CASE ty = "[]int" -> "int"
      [] ty = "[]string" -> "string"
      [] OTHER -> "any"

\* the zero value of a variable of static type ty
Zero(ty) ==
    CASE ty = "int" -> IntV(0)
      [] ty = "float64" -> FloatV(0)
      [] ty = "string" -> StrV(<<>>)
      [] ty = "bool" -> BoolV(FALSE)
      [] ty \in SliceTypes -> NilSlice(ty)
      [] OTHER -> Nil

-----------------------------------------------------------------------------
(* encoding/json: JSON text is a sequence of bytes (ASCII codes).           *)

Ascii == [quote |-> 34, comma |-> 44, minus |-> 45, zero |-> 48, nine |-> 57,
          lbrack |-> 91, backslash |-> 92, rbrack |-> 93, space |-> 32]
LitNull == <<110, 117, 108, 108>>
LitTrue == <<116, 114, 117, 101>>
LitFalse == <<102, 97, 108, 115, 101>>

RECURSIVE Digits(_)
Digits(n) ==
    IF n < 10 THEN <<Ascii.zero + n>>
    ELSE Digits(n \div 10) \o <<Ascii.zero + (n % 10)>>

\* strconv.AppendInt / the integral case of the float encoder
Itoa(n) == IF n < 0 THEN <<Ascii.minus>> \o Digits(-n) ELSE Digits(n)

RECURSIVE MarshalVal(_)
MarshalVal(v) ==
    CASE v.t = "nil" -> [ok |-> TRUE, data |-> LitNull]
      [] v.t \in {"int", "float64"} -> [ok |-> TRUE, data |-> Itoa(v.n)]
      [] v.t = "string" ->
            [ok |-> TRUE, data |-> <<Ascii.quote>> \o v.s \o <<Ascii.quote>>]
      [] v.t = "bool" ->
            [ok |-> TRUE, data |-> IF v.n = 1 THEN LitTrue ELSE LitFalse]
      [] v.t \in SliceTypes ->
            IF v.n = 1 THEN [ok |-> TRUE, data |-> LitNull]
            ELSE LET ms == [i \in 1..Len(v.e) |-> MarshalVal(v.e[i])]
                     Join[i \in 0..Len(v.e)] ==
                         IF i = 0 THEN <<>>
                         ELSE Join[i - 1]
                              \o (IF i > 1 THEN <<Ascii.comma>> ELSE <<>>)
                              \o ms[i].data
                 IN  IF \E i \in 1..Len(v.e) : ~ms[i].ok
                     THEN [ok |-> FALSE, data |-> <<>>]
                     ELSE [ok |-> TRUE,
                           data |-> <<Ascii.lbrack>> \o Join[Len(v.e)]
                                    \o <<Ascii.rbrack>>]
      [] OTHER -> [ok |-> FALSE, data |-> <<>>]  \* chan, func, complex

\* json.Marshal(value): (jsonData, err == nil)
Marshal(v) == MarshalVal(v)

(* The scanner: a JSON text to a tree of nodes {null, bool, num, str, arr}. *)

Node(k, n, s, e) == [k |-> k, n |-> n, s |-> s, e |-> e]
NoParse == [ok |-> FALSE, node |-> Node("null", 0, <<>>, <<>>), next |-> 0]

HasAt(d, i, lit) ==
    /\ i + Len(lit) - 1 <= Len(d)
    /\ SubSeq(d, i, i + Len(lit) - 1) = lit

IsDigit(c) == c >= Ascii.zero /\ c <= Ascii.nine

\* the index after the run of digits that starts at i
RECURSIVE DigitsEnd(_, _)
DigitsEnd(d, i) ==
    IF i <= Len(d) /\ IsDigit(d[i]) THEN DigitsEnd(d, i + 1) ELSE i

RECURSIVE Atoi(_, _, _)
Atoi(d, i, j) ==
    IF j < i THEN 0 ELSE Atoi(d, i, j - 1) * 10 + (d[j] - Ascii.zero)

\* the index of the closing quote of the string whose text starts at i, or 0
RECURSIVE StringEnd(_, _)
StringEnd(d, i) ==
    IF i > Len(d) THEN 0
    ELSE IF d[i] = Ascii.quote THEN i
    ELSE IF d[i] < Ascii.space \/ d[i] = Ascii.backslash THEN 0
    ELSE StringEnd(d, i + 1)

ParseNumber(d, i) ==
    LET neg == d[i] = Ascii.minus
        st == IF neg THEN i + 1 ELSE i
        en == DigitsEnd(d, st)
    IN  IF en = st THEN NoParse
        ELSE IF d[st] = Ascii.zero /\ en > st + 1 THEN NoParse
        ELSE [ok |-> TRUE,
              node |-> Node("num", IF neg THEN -Atoi(d, st, en - 1)
                                   ELSE Atoi(d, st, en - 1), <<>>, <<>>),
              next |-> en]

RECURSIVE ParseValue(_, _)
RECURSIVE ParseElems(_, _, _)
ParseValue(d, i) ==
    IF i > Len(d) THEN NoParse
    ELSE IF HasAt(d, i, LitNull)
    THEN [ok |-> TRUE, node |-> Node("null", 0, <<>>, <<>>), next |-> i + 4]
    ELSE IF HasAt(d, i, LitTrue)
    THEN [ok |-> TRUE, node |-> Node("bool", 1, <<>>, <<>>), next |-> i + 4]
    ELSE IF HasAt(d, i, LitFalse)
    THEN [ok |-> TRUE, node |-> Node("bool", 0, <<>>, <<>>), next |-> i + 5]
    ELSE IF d[i] = Ascii.quote
    THEN LET q == StringEnd(d, i + 1)
         IN  IF q = 0 THEN NoParse
             ELSE [ok |-> TRUE,
                   node |-> Node("str", 0, SubSeq(d, i + 1, q - 1), <<>>),
                   next |-> q + 1]
    ELSE IF d[i] = Ascii.minus \/ IsDigit(d[i]) THEN ParseNumber(d, i)
    ELSE IF d[i] = Ascii.lbrack
    THEN IF i + 1 <= Len(d) /\ d[i + 1] = Ascii.rbrack
         THEN [ok |-> TRUE, node |-> Node("arr", 0, <<>>, <<>>), next |-> i + 2]
         ELSE ParseElems(d, i + 1, <<>>)
    ELSE NoParse

ParseElems(d, i, acc) ==
    LET p == ParseValue(d, i)
    IN  IF ~p.ok \/ p.next > Len(d) THEN NoParse
        ELSE IF d[p.next] = Ascii.comma
        THEN ParseElems(d, p.next + 1, Append(acc, p.node))
        ELSE IF d[p.next] = Ascii.rbrack
        THEN [ok |-> TRUE, node |-> Node("arr", 0, <<>>, Append(acc, p.node)),
              next |-> p.next + 1]
        ELSE NoParse

\* checkValid(data) and the tree it scans
Parse(d) ==
    LET p == ParseValue(d, 1)
    IN  IF p.ok /\ p.next = Len(d) + 1 THEN p ELSE NoParse

\* decoding into an interface{}: numbers become float64, arrays []interface{}
RECURSIVE Generic(_)
Generic(node) ==
    CASE node.k = "null" -> Nil
      [] node.k = "bool" -> BoolV(node.n = 1)
      [] node.k = "num" -> FloatV(node.n)
      [] node.k = "str" -> StrV(node.s)
      [] OTHER -> SliceV("[]any", [i \in 1..Len(node.e) |-> Generic(node.e[i])])

\* the decoder on a variable of static type ty holding cur: the value it
\* leaves there, and whether it saved an UnmarshalTypeError.  After a
\* mismatch it skips the value and goes on with the rest.
RECURSIVE DecodeInto(_, _, _)
DecodeInto(node, ty, cur) ==
    CASE ty = "any" -> [val |-> Generic(node), bad |-> FALSE]
      [] node.k = "null" ->
            [val |-> IF ty \in SliceTypes THEN NilSlice(ty) ELSE cur,
             bad |-> FALSE]
      [] node.k = "bool" ->
            IF ty = "bool" THEN [val |-> BoolV(node.n = 1), bad |-> FALSE]
            ELSE [val |-> cur, bad |-> TRUE]
      [] node.k = "num" ->
            IF ty = "int" THEN [val |-> IntV(node.n), bad |-> FALSE]
            ELSE IF ty = "float64" THEN [val |-> FloatV(node.n), bad |-> FALSE]
            ELSE [val |-> cur, bad |-> TRUE]
      [] node.k = "str" ->
            IF ty = "string" THEN [val |-> StrV(node.s), bad |-> FALSE]
            ELSE [val |-> cur, bad |-> TRUE]
      [] OTHER ->
            IF ty \notin SliceTypes THEN [val |-> cur, bad |-> TRUE]
            ELSE LET k == Len(node.e)
                     old(i) == IF cur.n = 0 /\ i <= Len(cur.e) THEN cur.e[i]
                               ELSE Zero(ElemType(ty))
                     rs == [i \in 1..k |->
                               DecodeInto(node.e[i], ElemType(ty), old(i))]
                 IN  [val |-> SliceV(ty, [i \in 1..k |-> rs[i].val]),
                      bad |-> \E i \in 1..k : rs[i].bad]

(* A destination: NilDest is Expose(nil); otherwise a pointer to a variable *)
(* of static type ty that holds cur.                                        *)

NilDest == [ty |-> "nil", cur |-> Nil]
Dest(ty, cur) == [ty |-> ty, cur |-> cur]

\* json.Unmarshal(plaintext, dest): the error and what dest holds afterwards
Unmarshal(data, dest) ==
    LET p == Parse(data)
    IN  IF ~p.ok THEN [err |-> ErrUnmarshalSyntax, cur |-> dest.cur]
        ELSE IF dest = NilDest THEN [err |-> ErrUnmarshalNil, cur |-> dest.cur]
        ELSE LET r == DecodeInto(p.node, dest.ty, dest.cur)
             IN  [err |-> IF r.bad THEN ErrUnmarshalType ELSE NoError,
                  cur |-> r.val]

-----------------------------------------------------------------------------
(* crypto/aes and crypto/cipher (GCM)                                       *)

\* aes.NewCipher(key) succeeds for AES-128, AES-192 and AES-256 keys
AesKeyOk(key) == Len(key) \in {16, 24, 32}

KeyByte(key, j) == key[((j - 1) % Len(key)) + 1]

\* the keystream byte that encrypts plaintext byte i, from the block
\* base derived from key and nonce
StreamBase(key, nonce) == (SumSeq(key) + 7 * SumSeq(nonce)) % 256
KeyStream(base, i) == (base + 13 * i) % 256

Encrypt(key, nonce, pt) ==
    LET base == StreamBase(key, nonce)
    IN  [i \in 1..Len(pt) |-> (pt[i] + KeyStream(base, i)) % 256]

Decrypt(key, nonce, ct) ==
    LET base == StreamBase(key, nonce)
    IN  [i \in 1..Len(ct) |-> (ct[i] + 256 - KeyStream(base, i)) % 256]

\* the authentication tag over key, nonce and ciphertext
Tag(key, nonce, ct) ==
    LET Col(j) == {i \in 1..Len(ct) : (i - 1) % TagSize = j - 1}
        RECURSIVE SumCt(_)
        SumCt(S) == IF S = {} THEN 0
                    ELSE LET i == CHOOSE x \in S : TRUE
                         IN  ct[i] + SumCt(S \ {i})
    IN  [j \in 1..TagSize |->
            (KeyByte(key, j) + 3 * KeyByte(key, j + TagSize)
             + nonce[((j - 1) % NonceSize) + 1]
             + SumCt(Col(j)) + Len(ct) + 90) % 256]

\* a Seal that never uses the nonce it is given
SealZeroNonce(key, nonce, pt) ==
    LET z == Fill(NonceSize, 0)
        ct == Encrypt(key, z, pt)
    IN  z \o ct \o Tag(key, z, ct)

\* gcm.Seal(nonce, nonce, plaintext, nil): nonce || ciphertext || tag
Seal(key, nonce, pt) ==
    LET ct == Encrypt(key, nonce, pt)
    IN  nonce \o ct \o Tag(key, nonce, ct)

\* an Open that decrypts without comparing the tag
OpenUnverified(key, nonce, ciphertext) ==
    IF Len(ciphertext) < TagSize THEN [ok |-> FALSE, plaintext |-> <<>>]
    ELSE [ok |-> TRUE,
          plaintext |-> Decrypt(key, nonce,
                                SubSeq(ciphertext, 1, Len(ciphertext) - TagSize))]

\* gcm.Open(nil, nonce, ciphertext, nil): (plaintext, err == nil)
Open(key, nonce, ciphertext) ==
    IF Len(ciphertext) < TagSize THEN [ok |-> FALSE, plaintext |-> <<>>]
    ELSE LET n == Len(ciphertext) - TagSize
             ct == SubSeq(ciphertext, 1, n)
             tag == SubSeq(ciphertext, n + 1, Len(ciphertext))
         IN  IF tag # Tag(key, nonce, ct) THEN [ok |-> FALSE, plaintext |-> <<>>]
             ELSE [ok |-> TRUE, plaintext |-> Decrypt(key, nonce, ct)]

-----------------------------------------------------------------------------
(* The package's functions as functions of their inputs                     *)

\* a key check that rejects only short keys
KeyAcceptedAtLeast(key) == Len(key) >= KeySize

\* NewSecretClient: len(encryptionKey) != 32 is ErrInvalidKey
KeyAccepted(key) == Len(key) = KeySize

\* Client.Shroud on the key bytes the Client refers to, with the nonce that
\* rand.Reader returns: (encrypted, err)
ShroudResult(key, value, nonce) ==
    LET m == Marshal(value)
    IN  IF ~m.ok THEN [err |-> ErrMarshal, encrypted |-> <<>>]
        ELSE IF Len(m.data) = 0 THEN [err |-> ErrEmptyValue, encrypted |-> <<>>]
        ELSE IF ~AesKeyOk(key) THEN [err |-> ErrCipher, encrypted |-> <<>>]
        ELSE [err |-> NoError,
              encrypted |-> EncodeToString(Seal(key, nonce, m.data))]

\* a CreateFromEncrypted that does not check the format
CreateUnchecked(encrypted) ==
    IF encrypted = <<>> THEN ErrEmptyValue ELSE NoError

\* Client.CreateFromEncrypted: the error it returns
CreateResult(encrypted) ==
    IF encrypted = <<>> THEN ErrEmptyValue
    ELSE IF ~DecodeString(encrypted).ok THEN ErrInvalidSecret
    ELSE NoError

\* an Expose that splits the nonce off one byte early
ExposeOffByOne(encrypted, key, dest) ==
    LET dec == DecodeString(encrypted)
        ciphertext == dec.bytes
    IN  IF ~dec.ok THEN [err |-> ErrInvalidSecret, cur |-> dest.cur]
        ELSE IF ~AesKeyOk(key) THEN [err |-> ErrCipher, cur |-> dest.cur]
        ELSE IF Len(ciphertext) < NonceSize
        THEN [err |-> ErrInvalidSecret, cur |-> dest.cur]
        ELSE LET o == Open(key, SubSeq(ciphertext, 1, NonceSize),
                           SubSeq(ciphertext, NonceSize, Len(ciphertext)))
             IN  IF ~o.ok THEN [err |-> ErrInvalidSecret, cur |-> dest.cur]
                 ELSE Unmarshal(o.plaintext, dest)

\* an Expose that drops the error of json.Unmarshal
ExposeDropsUnmarshalError(encrypted, key, dest) ==
    LET dec == DecodeString(encrypted)
        ciphertext == dec.bytes
    IN  IF ~dec.ok THEN [err |-> ErrInvalidSecret, cur |-> dest.cur]
        ELSE IF ~AesKeyOk(key) THEN [err |-> ErrCipher, cur |-> dest.cur]
        ELSE IF Len(ciphertext) < NonceSize
        THEN [err |-> ErrInvalidSecret, cur |-> dest.cur]
        ELSE LET o == Open(key, SubSeq(ciphertext, 1, NonceSize),
                           SubSeq(ciphertext, NonceSize + 1, Len(ciphertext)))
             IN  IF ~o.ok THEN [err |-> ErrInvalidSecret, cur |-> dest.cur]
                 ELSE [err |-> NoError, cur |-> Unmarshal(o.plaintext, dest).cur]

\* an Expose that passes on the error of gcm.Open
ExposeLeaksOpenError(encrypted, key, dest) ==
    LET dec == DecodeString(encrypted)
        ciphertext == dec.bytes
    IN  IF ~dec.ok THEN [err |-> ErrInvalidSecret, cur |-> dest.cur]
        ELSE IF ~AesKeyOk(key) THEN [err |-> ErrCipher, cur |-> dest.cur]
        ELSE IF Len(ciphertext) < NonceSize
        THEN [err |-> ErrInvalidSecret, cur |-> dest.cur]
        ELSE LET o == Open(key, SubSeq(ciphertext, 1, NonceSize),
                           SubSeq(ciphertext, NonceSize + 1, Len(ciphertext)))
             IN  IF ~o.ok
                 THEN [err |-> "failed to decrypt: cipher: message authentication failed",
                       cur |-> dest.cur]
                 ELSE Unmarshal(o.plaintext, dest)

\* Secret.Expose on the token, the key bytes of the Secret's Client and the
\* destination: the error, and what the destination holds afterwards
ExposeResult(encrypted, key, dest) ==
    LET dec == DecodeString(encrypted)
        ciphertext == dec.bytes
    IN  IF ~dec.ok THEN [err |-> ErrInvalidSecret, cur |-> dest.cur]
        ELSE IF ~AesKeyOk(key) THEN [err |-> ErrCipher, cur |-> dest.cur]
        ELSE IF Len(ciphertext) < NonceSize
        THEN [err |-> ErrInvalidSecret, cur |-> dest.cur]
        ELSE LET o == Open(key, SubSeq(ciphertext, 1, NonceSize),
                           SubSeq(ciphertext, NonceSize + 1, Len(ciphertext)))
             IN  IF ~o.ok THEN [err |-> ErrInvalidSecret, cur |-> dest.cur]
                 ELSE Unmarshal(o.plaintext, dest)

\* Secret.EncryptedValue
EncryptedValue(s) == s.encrypted


-----------------------------------------------------------------------------
(* The inputs the callers choose from                                       *)

Key0 == Fill(KeySize, 0)
Key1 == Fill(KeySize, 1)

\* keys of every length class: too short, an AES-128 key, one byte short,
\* exact, one byte long, twice the size
KeyInputs == {Fill(n, 0) : n \in {0, 16, 31, 33, 64}} \cup {Key0, Key1}

\* the 96-bit values rand.Reader may return
Nonces(n) ==
    {[i \in 1..NonceSize |-> IF i = NonceSize THEN k
                             ELSE IF i = 1 THEN 255 - k ELSE 0] : k \in 1..n}

Ints(s) == [i \in 1..Len(s) |-> IntV(s[i])]

Values ==
    { Nil, IntV(42), IntV(-7), FloatV(4), StrV(<<97, 98>>), StrV(<<>>),
      BoolV(TRUE), BoolV(FALSE),
      SliceV("[]int", Ints(<<1, 20>>)), SliceV("[]int", <<>>), NilSlice("[]int"),
      SliceV("[]string", <<StrV(<<97>>)>>),
      SliceV("[]any", <<IntV(1), StrV(<<97>>)>>),
      SliceV("[]any", <<SliceV("[]int", Ints(<<3>>)), Nil>>),
      ChanV }

FewValues == {IntV(42), StrV(<<97, 98>>)}

Dests ==
    { NilDest, Dest("any", Nil), Dest("int", IntV(7)), Dest("float64", FloatV(7)),
      Dest("string", StrV(<<122>>)), Dest("bool", BoolV(FALSE)),
      Dest("[]int", SliceV("[]int", Ints(<<7>>))),
      Dest("[]string", NilSlice("[]string")),
      Dest("[]any", SliceV("[]any", <<IntV(7)>>)) }

FewDests == {NilDest, Dest("any", Nil), Dest("int", IntV(7)),
             Dest("string", StrV(<<122>>))}

\* tokens that are not standard base64
UndecodableTokens ==
    { <<8, 13, B64.bad, 0>>,                 \* a character outside the alphabet
      <<1, 2, 3>>,                           \* a length that is no multiple of 4
      <<1, B64.pad, 2, 3>> }                 \* padding inside a quantum

\* base64 of blobs shorter than a nonce
ShortTokens ==
    { EncodeToString(<<1, 2, 3>>),
      EncodeToString(Fill(NonceSize - 1, 7)) }

\* base64 of blobs that hold a nonce but no sealed message
GarbageTokens ==
    { EncodeToString(Fill(NonceSize, 0)),
      EncodeToString(Fill(NonceSize + TagSize + 2, 0)) }

\* tokens a caller may hand to CreateFromEncrypted that no Shroud produced
ProbeTokens == {<<>>} \cup UndecodableTokens \cup ShortTokens \cup GarbageTokens

-----------------------------------------------------------------------------
(* State *)

CallRec(op, c, key, value, token, dest, after, err, si) ==
    [op |-> op, client |-> c, key |-> key, value |-> value, token |-> token,
     dest |-> dest, after |-> after, err |-> err, secret |-> si]

NoCall == CallRec("none", 0, <<>>, Nil, <<>>, NilDest, Nil, NoError, 0)

\* where a Secret's token came from: how ("Shroud", "probe", "tampered",
\* "literal"), whether CreateFromEncrypted wrapped it, and for a token that
\* goes back to a Shroud call that call's value, nonce and key bytes
Origin(how, wrapped, value, nonce, key) ==
    [how |-> how, wrapped |-> wrapped, value |-> value, nonce |-> nonce,
     key |-> key]

NoSecret == [encrypted |-> <<>>, client |-> 0]

IdleTask == [pc |-> "idle", val |-> Nil, jsonData |-> <<>>, block |-> <<>>,
             nonce |-> <<>>, secret |-> NoSecret, ciphertext |-> <<>>,
             plaintext |-> <<>>, result |-> Nil, err |-> NoError]

Init ==
    /\ heap = <<>>
    /\ clients = <<>>
    /\ constructedWith = <<>>
    /\ secrets = <<>>
    /\ origin = <<>>
    /\ drawn = {}
    /\ last = NoCall
    /\ writes = 0
    /\ tasks = [t \in 1..NumTasks |-> IdleTask]

\* the key bytes Client c refers to now
KeyOf(c) == heap[clients[c].encryptionKey]

ClientIds == 1..Len(clients)
SecretIds == 1..Len(secrets)

-----------------------------------------------------------------------------
(* Operations *)

\* NewSecretClient(encryptionKey): the Client keeps the caller's slice
NewSecretClient(key) ==
    /\ Len(clients) < MaxClients
    /\ IF KeyAccepted(key)
       THEN /\ heap' = Append(heap, key)
            /\ clients' = Append(clients, [encryptionKey |-> Len(heap) + 1])
            /\ constructedWith' = Append(constructedWith, key)
            /\ last' = CallRec("NewSecretClient", Len(clients) + 1, key, Nil,
                               <<>>, NilDest, Nil, NoError, 0)
       ELSE /\ last' = CallRec("NewSecretClient", 0, key, Nil, <<>>, NilDest,
                               Nil, ErrInvalidKey, 0)
            /\ UNCHANGED <<heap, clients, constructedWith>>
    /\ UNCHANGED <<secrets, origin, drawn, writes, tasks>>

\* c.Shroud(value), the nonce read from rand.Reader being one of fresh
Shroud(c, value, fresh) ==
    /\ Len(secrets) < MaxSecrets
    /\ \E nonce \in fresh \ drawn :
          LET r == ShroudResult(KeyOf(c), value, nonce)
          IN  IF r.err = NoError
              THEN /\ secrets' = Append(secrets,
                                        [encrypted |-> r.encrypted, client |-> c])
                   /\ origin' = Append(origin,
                                       Origin("Shroud", FALSE, value, nonce, KeyOf(c)))
                   /\ drawn' = drawn \cup {nonce}
                   /\ last' = CallRec("Shroud", c, KeyOf(c), value, r.encrypted,
                                      NilDest, Nil, NoError, Len(secrets) + 1)
              ELSE /\ last' = CallRec("Shroud", c, KeyOf(c), value, <<>>, NilDest,
                                      Nil, r.err, 0)
                   /\ UNCHANGED <<secrets, origin, drawn>>
    /\ UNCHANGED <<heap, clients, constructedWith, writes, tasks>>

\* c.CreateFromEncrypted(encrypted); org records where the token came from
CreateFromEncrypted(c, encrypted, org) ==
    /\ Len(secrets) < MaxSecrets
    /\ LET err == CreateResult(encrypted)
       IN  IF err = NoError
           THEN /\ secrets' = Append(secrets,
                                     [encrypted |-> encrypted, client |-> c])
                /\ origin' = Append(origin, org)
                /\ last' = CallRec("CreateFromEncrypted", c, <<>>, Nil, encrypted,
                                   NilDest, Nil, NoError, Len(secrets) + 1)
           ELSE /\ last' = CallRec("CreateFromEncrypted", c, <<>>, Nil, encrypted,
                                   NilDest, Nil, err, 0)
                /\ UNCHANGED <<secrets, origin>>
    /\ UNCHANGED <<heap, clients, constructedWith, drawn, writes, tasks>>

\* the caller re-wraps a stored token: c.CreateFromEncrypted(s.EncryptedValue())
CreateFromStored(c, si) ==
    CreateFromEncrypted(c, EncryptedValue(secrets[si]),
                        [origin[si] EXCEPT !.wrapped = TRUE])

\* the caller wraps a token that did not come from Shroud
CreateFromProbe(c, token) ==
    CreateFromEncrypted(c, token, Origin("probe", TRUE, Nil, <<>>, <<>>))

\* one bit of a stored token's decoded bytes is flipped (any bit of the
\* nonce, the ciphertext or the tag) and the re-encoded token is wrapped by
\* the client that produced the original
CreateFromTampered(si) ==
    /\ Len(secrets) < MaxSecrets
    /\ origin[si].how = "Shroud"
    /\ LET bytes == DecodeString(EncryptedValue(secrets[si])).bytes
       IN  \E i \in 1..Len(bytes), k \in 0..7 :
              CreateFromEncrypted(secrets[si].client,
                                  EncodeToString(FlipBit(bytes, i, k)),
                                  [origin[si] EXCEPT !.how = "tampered",
                                                     !.wrapped = TRUE])

\* secrets[si].Expose(dest)
Expose(si, dest) ==
    /\ LET s == secrets[si]
           r == ExposeResult(s.encrypted, KeyOf(s.client), dest)
       IN  last' = CallRec("Expose", s.client, KeyOf(s.client), Nil, s.encrypted,
                           dest, r.cur, r.err, si)
    /\ UNCHANGED <<heap, clients, constructedWith, secrets, origin, drawn,
                   writes, tasks>>

\* the caller writes byte b at index i of the slice it passed to
\* NewSecretClient when it built Client c
WriteKey(c, i, b) ==
    /\ writes < MaxWrites
    /\ KeyOf(c)[i] # b
    /\ heap' = [heap EXCEPT ![clients[c].encryptionKey][i] = b]
    /\ writes' = writes + 1
    /\ UNCHANGED <<clients, constructedWith, secrets, origin, drawn, last, tasks>>

-----------------------------------------------------------------------------
(* Spec: one Client; a value is shrouded, its token stored and re-wrapped,  *)
(* and the Secrets exposed into every kind of destination.                  *)

NoClientYet == clients = <<>>
NoSecretYet == secrets = <<>>

Next ==
    \/ \E key \in {Key0, Key1, Fill(16, 0)} : NoClientYet /\ NewSecretClient(key)
    \/ \E c \in ClientIds, v \in Values :
          NoSecretYet /\ Shroud(c, v, Nonces(MaxSecrets))
    \/ \E c \in ClientIds, si \in SecretIds : CreateFromStored(c, si)
    \/ \E si \in SecretIds, d \in Dests : Expose(si, d)

Spec == Init /\ [][Next]_vars

(* SpecNonce: one Client; the same few values are shrouded again and again. *)

NextNonce ==
    \/ \E key \in {Key0, Key1} : NoClientYet /\ NewSecretClient(key)
    \/ \E c \in ClientIds, v \in FewValues : Shroud(c, v, Nonces(MaxSecrets))
    \/ \E si \in SecretIds, d \in FewDests : Expose(si, d)

SpecNonce == Init /\ [][NextNonce]_vars

(* SpecTokens: Clients under keys of every length; tokens of every kind are *)
(* handed to CreateFromEncrypted, also those of another Client.             *)

NextTokens ==
    \/ \E key \in KeyInputs : NewSecretClient(key)
    \/ \E c \in ClientIds : NoSecretYet /\ Shroud(c, IntV(42), Nonces(MaxSecrets))
    \/ \E c \in ClientIds, si \in SecretIds : CreateFromStored(c, si)
    \/ \E c \in ClientIds, t \in ProbeTokens : CreateFromProbe(c, t)
    \/ \E si \in SecretIds, d \in {NilDest, Dest("int", IntV(7))} : Expose(si, d)

SpecTokens == Init /\ [][NextTokens]_vars

(* SpecTamper: every single bit of a stored token is flipped.               *)

NextTamper ==
    \/ \E key \in {Key0, Key1} : NoClientYet /\ NewSecretClient(key)
    \/ \E c \in ClientIds, v \in FewValues \cup {SliceV("[]any", <<IntV(1), StrV(<<97>>)>>)} :
          NoSecretYet /\ Shroud(c, v, Nonces(MaxSecrets))
    \/ \E si \in SecretIds : Len(secrets) = 1 /\ CreateFromTampered(si)
    \/ \E si \in SecretIds, d \in {Dest("any", Nil), Dest("[]int", SliceV("[]int", Ints(<<7>>)))} :
          Expose(si, d)

SpecTamper == Init /\ [][NextTamper]_vars

(* SpecAlias: as Spec, and the caller writes into the slice it passed to    *)
(* NewSecretClient.                                                         *)

NextAlias ==
    \/ NoClientYet /\ NewSecretClient(Key0)
    \/ \E c \in ClientIds, v \in FewValues :
          NoSecretYet /\ Shroud(c, v, Nonces(MaxSecrets))
    \/ \E si \in SecretIds, d \in FewDests : Expose(si, d)
    \/ \E c \in ClientIds, i \in {1, KeySize}, b \in {1, 255} : WriteKey(c, i, b)

SpecAlias == Init /\ [][NextAlias]_vars

(* SpecExpose: Expose as a function of its receiver.  A Secret is a struct *)
(* of a string and a Client pointer; the initial states hold one Secret for *)
(* each kind of string, also those that CreateFromEncrypted would reject.   *)

SealedToken(key, value, nonce) == ShroudResult(key, value, nonce).encrypted

FlippedTokens(tok) ==
    LET bytes == DecodeString(tok).bytes
    IN  {EncodeToString(FlipBit(bytes, i, k)) : i \in 1..Len(bytes), k \in 0..7}

\* the Secrets held by the Client under own when another Client holds other
LiteralSecrets(own, other) ==
    LET n == CHOOSE x \in Nonces(1) : TRUE
        v == IntV(42)
        Lit(tok, how, key) ==
            [secret |-> [encrypted |-> tok, client |-> 1],
             origin |-> Origin(how, FALSE, v, n, key)]
    IN  {Lit(t, "undecodable", <<>>) : t \in UndecodableTokens}
        \cup {Lit(t, "short", <<>>) : t \in ShortTokens \cup {<<>>}}
        \cup {Lit(t, "tampered", own) : t \in FlippedTokens(SealedToken(own, v, n))}
        \cup {Lit(SealedToken(other, v, n), "otherkey", other),
              Lit(SealedToken(own, v, n), "Shroud", own)}

InitExpose ==
    /\ \E own \in {Key0, Key1} :
          \E other \in {Key0, Key1} \ {own} :
             /\ heap = <<own, other>>
             /\ constructedWith = <<own, other>>
             /\ \E lit \in LiteralSecrets(own, other) :
                   /\ secrets = <<lit.secret>>
                   /\ origin = <<lit.origin>>
    /\ clients = <<[encryptionKey |-> 1], [encryptionKey |-> 2]>>
    /\ drawn = Nonces(1)
    /\ last = NoCall
    /\ writes = 0
    /\ tasks = [t \in 1..NumTasks |-> IdleTask]

NextExpose == \E si \in SecretIds, d \in FewDests : Expose(si, d)

SpecExpose == InitExpose /\ [][NextExpose]_vars

-----------------------------------------------------------------------------
(* SpecConc: NumTasks goroutines share one Client; each shrouds its own     *)
(* value and exposes the Secret it got (TestShroud_Concurrency).  A step is *)
(* one access to what the goroutines share (the Client's key, rand.Reader)  *)
(* or one stretch of the code on the goroutine's own locals.                *)

InitConc ==
    /\ \E key \in {Key0, Key1} :
          /\ heap = <<key>>
          /\ constructedWith = <<key>>
    /\ clients = <<[encryptionKey |-> 1]>>
    /\ secrets = <<>>
    /\ origin = <<>>
    /\ drawn = {}
    /\ last = NoCall
    /\ writes = 0
    /\ tasks = [t \in 1..NumTasks |->
                   [IdleTask EXCEPT !.pc = "marshal", !.val = IntV(t - 1),
                                    !.result = IntV(0)]]

TaskVars == <<heap, clients, constructedWith, secrets, origin, last, writes>>

Fail(t, err) == [tasks EXCEPT ![t].pc = "failed", ![t].err = err]

\* Shroud: json.Marshal(value) and the empty check
TaskMarshal(t) ==
    /\ tasks[t].pc = "marshal"
    /\ LET m == Marshal(tasks[t].val)
       IN  tasks' = IF ~m.ok THEN Fail(t, ErrMarshal)
                    ELSE IF Len(m.data) = 0 THEN Fail(t, ErrEmptyValue)
                    ELSE [tasks EXCEPT ![t].pc = "cipher", ![t].jsonData = m.data]
    /\ UNCHANGED <<TaskVars, drawn>>

\* Shroud: aes.NewCipher(c.encryptionKey), cipher.NewGCM(block)
TaskCipher(t) ==
    /\ tasks[t].pc = "cipher"
    /\ tasks' = IF ~AesKeyOk(KeyOf(1)) THEN Fail(t, ErrCipher)
                ELSE [tasks EXCEPT ![t].pc = "nonce", ![t].block = KeyOf(1)]
    /\ UNCHANGED <<TaskVars, drawn>>

\* Shroud: io.ReadFull(rand.Reader, nonce)
TaskNonce(t) ==
    /\ tasks[t].pc = "nonce"
    /\ \E nonce \in Nonces(NumTasks) \ drawn :
          /\ drawn' = drawn \cup {nonce}
          /\ tasks' = [tasks EXCEPT ![t].pc = "seal", ![t].nonce = nonce]
    /\ UNCHANGED TaskVars

\* a Shroud that hands its Secret out through a field all goroutines share
TaskSealShared(t) ==
    /\ tasks[t].pc = "seal"
    /\ LET sec == [encrypted |->
                       EncodeToString(Seal(tasks[t].block, tasks[t].nonce,
                                           tasks[t].jsonData)),
                   client |-> 1]
       IN  tasks' = [u \in 1..NumTasks |->
                        IF u = t THEN [tasks[u] EXCEPT !.pc = "decode", !.secret = sec]
                        ELSE [tasks[u] EXCEPT !.secret = sec]]
    /\ UNCHANGED <<TaskVars, drawn>>

\* Shroud: gcm.Seal, EncodeToString, &Secret{encrypted, c}
TaskSeal(t) ==
    /\ tasks[t].pc = "seal"
    /\ tasks' = [tasks EXCEPT
                    ![t].pc = "decode",
                    ![t].secret =
                        [encrypted |->
                             EncodeToString(Seal(tasks[t].block, tasks[t].nonce,
                                                 tasks[t].jsonData)),
                         client |-> 1]]
    /\ UNCHANGED <<TaskVars, drawn>>

\* Expose: base64.StdEncoding.DecodeString(s.encrypted)
TaskDecode(t) ==
    /\ tasks[t].pc = "decode"
    /\ LET dec == DecodeString(tasks[t].secret.encrypted)
       IN  tasks' = IF ~dec.ok THEN Fail(t, ErrInvalidSecret)
                    ELSE [tasks EXCEPT ![t].pc = "xcipher",
                                       ![t].ciphertext = dec.bytes]
    /\ UNCHANGED <<TaskVars, drawn>>

\* Expose: aes.NewCipher(s.client.encryptionKey), cipher.NewGCM(block)
TaskExposeCipher(t) ==
    /\ tasks[t].pc = "xcipher"
    /\ LET key == KeyOf(tasks[t].secret.client)
       IN  tasks' = IF ~AesKeyOk(key) THEN Fail(t, ErrCipher)
                    ELSE [tasks EXCEPT ![t].pc = "open", ![t].block = key]
    /\ UNCHANGED <<TaskVars, drawn>>

\* Expose: the nonce split off and gcm.Open
TaskOpen(t) ==
    /\ tasks[t].pc = "open"
    /\ LET ciphertext == tasks[t].ciphertext
       IN  IF Len(ciphertext) < NonceSize
           THEN tasks' = Fail(t, ErrInvalidSecret)
           ELSE LET o == Open(tasks[t].block, SubSeq(ciphertext, 1, NonceSize),
                              SubSeq(ciphertext, NonceSize + 1, Len(ciphertext)))
                IN  tasks' = IF ~o.ok THEN Fail(t, ErrInvalidSecret)
                             ELSE [tasks EXCEPT ![t].pc = "unmarshal",
                                                ![t].plaintext = o.plaintext]
    /\ UNCHANGED <<TaskVars, drawn>>

\* Expose: json.Unmarshal(plaintext, &result), result an int
TaskUnmarshal(t) ==
    /\ tasks[t].pc = "unmarshal"
    /\ LET u == Unmarshal(tasks[t].plaintext, Dest("int", tasks[t].result))
       IN  tasks' = [tasks EXCEPT
                        ![t].pc = IF u.err = NoError THEN "done" ELSE "failed",
                        ![t].result = u.cur,
                        ![t].err = u.err]
    /\ UNCHANGED <<TaskVars, drawn>>

NextConc ==
    \E t \in 1..NumTasks :
        \/ TaskMarshal(t)
        \/ TaskCipher(t)
        \/ TaskNonce(t)
        \/ TaskSeal(t)
        \/ TaskDecode(t)
        \/ TaskExposeCipher(t)
        \/ TaskOpen(t)
        \/ TaskUnmarshal(t)

SpecConc == InitConc /\ [][NextConc]_vars

-----------------------------------------------------------------------------
(* Properties                                                               *)

\* the token of Secret si was sealed by Shroud under the key that the
\* Secret's Client was built with
Authentic(si) ==
    /\ origin[si].how = "Shroud"
    /\ constructedWith[secrets[si].client] = origin[si].key

\* types whose declaration fixes the type of every number and sequence
StaticTypes == {"int", "float64", "string", "bool", "[]int", "[]string"}

RECURSIVE Serializable(_)
Serializable(v) ==
    /\ v.t # "chan"
    /\ \A i \in 1..Len(v.e) : Serializable(v.e[i])

\* v as a schema-erased tree: every number a float64, every sequence a
\* []interface{}, a nil slice the nil interface
RECURSIVE Collapse(_)
Collapse(v) ==
    CASE v.t = "int" -> FloatV(v.n)
      [] v.t \in SliceTypes ->
            IF v.n = 1 THEN Nil
            ELSE SliceV("[]any", [i \in 1..Len(v.e) |-> Collapse(v.e[i])])
      [] OTHER -> v

\* standard base64: quanta of four characters of the alphabet, the last
\* one or two characters of the text may be padding
IsStdBase64(tok) ==
    /\ Len(tok) % 4 = 0
    /\ \A i \in 1..Len(tok) :
          \/ tok[i] <= 63
          \/ /\ tok[i] = B64.pad
             /\ i >= Len(tok) - 1
             /\ tok[Len(tok)] = B64.pad

C2_TamperDetection ==
    (last.op = "Expose" /\ origin[last.secret].how = "tampered") =>
        (last.err = ErrInvalidSecret /\ last.after = last.dest.cur)

C2_Witness ==
    /\ last.op = "Expose"
    /\ origin[last.secret].how = "tampered"
    /\ secrets[last.secret].client = secrets[1].client
    /\ SubSeq(DecodeString(last.token).bytes, 1, NonceSize)
          # SubSeq(DecodeString(secrets[1].encrypted).bytes, 1, NonceSize)
    /\ last.err = ErrInvalidSecret

\* C3: the key that Shroud and Expose use is the key NewSecretClient was
\* given, whatever the caller has written into its slice since.
C3_KeyImmutable ==
    last.op \in {"Shroud", "Expose"} => last.key = constructedWith[last.client]

\* C4: every goroutine runs to its end without an error and gets back the
\* value it shrouded.
C4_NoCrossContamination ==
    /\ \A t \in 1..NumTasks :
          /\ tasks[t].err = NoError
          /\ tasks[t].pc # "failed"
          /\ tasks[t].pc = "done" => tasks[t].result = tasks[t].val
    /\ (\E t \in 1..NumTasks : tasks[t].pc # "done") => ENABLED NextConc

C4_Witness ==
    /\ \A t \in 1..NumTasks : tasks[t].pc = "done"
    /\ \A t, u \in 1..NumTasks : t # u => tasks[t].result # tasks[u].result

\* C5: when Expose returns an error the destination holds what it held
\* before the call.
C5_NoPartialResult ==
    (last.op = "Expose" /\ last.err # NoError) => last.after = last.dest.cur

\* C6: Expose returns the one error ErrInvalidSecret for a token that is not
\* base64, for a blob shorter than a nonce, for a tampered token and for a
\* token sealed under another key, and writes nothing.
C6_SingleFailureKind ==
    (/\ last.op = "Expose"
     /\ origin[last.secret].how \in {"undecodable", "short", "tampered", "otherkey"})
    => (last.err = ErrInvalidSecret /\ last.after = last.dest.cur)

C6_Witness ==
    /\ last.op = "Expose"
    /\ origin[last.secret].how = "otherkey"
    /\ last.err = ErrInvalidSecret

\* C7: NewSecretClient returns a Client and no error iff the key is 32
\* bytes long; otherwise it returns ErrInvalidKey and no Client.
C7_KeyValidation ==
    /\ last.op = "NewSecretClient" =>
          /\ last.err = NoError <=> Len(last.key) = 32
          /\ last.err = NoError =>
                (last.client = Len(clients) /\ KeyOf(last.client) = last.key)
          /\ last.err # NoError => (last.err = ErrInvalidKey /\ last.client = 0)
    /\ \A c \in ClientIds : Len(KeyOf(c)) = 32

C7_Witness ==
    /\ last.op = "NewSecretClient"
    /\ Len(last.key) = 16
    /\ last.err = ErrInvalidKey

\* C8: two Shroud calls on one Client with the same value return different
\* tokens under different nonces, and each Secret exposes to the value.
C8_NonceUniqueness ==
    /\ \A i, j \in SecretIds :
          (/\ i # j
           /\ origin[i].how = "Shroud" /\ origin[j].how = "Shroud"
           /\ secrets[i].client = secrets[j].client
           /\ origin[i].value = origin[j].value)
          => (/\ EncryptedValue(secrets[i]) # EncryptedValue(secrets[j])
              /\ SubSeq(DecodeString(EncryptedValue(secrets[i])).bytes, 1, NonceSize)
                    # SubSeq(DecodeString(EncryptedValue(secrets[j])).bytes, 1, NonceSize))
    /\ (/\ last.op = "Expose"
        /\ Authentic(last.secret)
        /\ last.dest.ty = origin[last.secret].value.t)
       => (last.err = NoError /\ last.after = origin[last.secret].value)

C8_Witness ==
    /\ Len(secrets) >= 2
    /\ origin[1].value = origin[2].value
    /\ secrets[1].client = secrets[2].client
    /\ last.op = "Expose"
    /\ last.secret = 1
    /\ last.err = NoError
    /\ last.after = origin[1].value

\* C9: CreateFromEncrypted fails with ErrEmptyValue iff the token is empty,
\* with ErrInvalidSecret iff the token is not empty and not standard base64,
\* and otherwise returns a Secret that holds the token unchanged; a wrapped
\* token that was not sealed under the Client's key fails at Expose, with
\* ErrInvalidSecret.
C9_LazyValidation ==
    /\ last.op = "CreateFromEncrypted" =>
          /\ last.err = ErrEmptyValue <=> last.token = <<>>
          /\ last.err = ErrInvalidSecret <=>
                (last.token # <<>> /\ ~IsStdBase64(last.token))
          /\ (last.token # <<>> /\ IsStdBase64(last.token)) =>
                /\ last.err = NoError
                /\ last.secret = Len(secrets)
                /\ secrets[last.secret] =
                      [encrypted |-> last.token, client |-> last.client]
          /\ last.err # NoError => last.secret = 0
    /\ (/\ last.op = "Expose"
        /\ origin[last.secret].wrapped
        /\ ~Authentic(last.secret))
       => last.err = ErrInvalidSecret

C9_Witness ==
    /\ last.op = "Expose"
    /\ origin[last.secret].wrapped
    /\ origin[last.secret].how = "Shroud"
    /\ ~Authentic(last.secret)
    /\ last.err = ErrInvalidSecret

\* C10 as claimed: Expose with a nil destination fails with the
\* invalid-argument error (json.InvalidUnmarshalError) whatever the token.
C10_NilDestAlwaysInvalidArgument ==
    (last.op = "Expose" /\ last.dest = NilDest) => last.err = ErrUnmarshalNil

\* C10 as amended: Expose with a nil destination never succeeds; it fails
\* with the invalid-argument error when the token was sealed under the
\* Client's key and with ErrInvalidSecret otherwise.
C10_NilDestNeverSucceeds ==
    (last.op = "Expose" /\ last.dest = NilDest) =>
        /\ last.err # NoError
        /\ last.err = IF Authentic(last.secret) THEN ErrUnmarshalNil
                      ELSE ErrInvalidSecret

C10_Witness ==
    /\ last.op = "Expose"
    /\ last.dest = NilDest
    /\ Authentic(last.secret)
    /\ last.err = ErrUnmarshalNil

=============================================================================
